---- MODULE Spec2Model ----
(***************************************************************************)
(* State-machine model of the WorldBackground canvas component: the async  *)
(* init (two topology imports), the animation frame, the six listeners     *)
(* (resize, click, pointermove, pointerleave, world:pin, world:blip) and   *)
(* the effect cleanup (specification Spec); of the admin edge function     *)
(* (SpecAdmin, and SpecAccounts for the paging loop of its accounts        *)
(* action); of the click edge function with concurrent requests            *)
(* (SpecClick); and of the page's button handler (SpecPage).               *)
(*                                                                         *)
(* Geometry is a small synthetic world on a grid of 10-degree units        *)
(* (lon -18..18, lat -9..9); country polygons are rectangles.  Strings     *)
(* that the code inspects character-wise (country codes, numeric ids) are  *)
(* sequences of one-character strings.                                     *)
(***************************************************************************)
EXTENDS Integers, Sequences, FiniteSets, TLC

VARIABLES
    viewport,          \* the parent element's current rect (environment)
    width, height,     \* let width / let height, set by setSize
    projection,        \* let projection: GeoProjection | null
    landGeo,           \* let landGeo (TRUE when non-null)
    countryLinesGeo,   \* let countryLinesGeo (TRUE when non-null)
    countriesFC,       \* let countriesFC (TRUE when non-null; then it is Features)
    alpha2ToCentroid,  \* Map<string,[number,number]> in insertion order
    pinned,            \* Set<string>
    blips,             \* Blip[]
    now,               \* performance.now()
    initPc,            \* where the async init stands
    disposed,          \* the effect cleanup has run
    rafPending,        \* an animation-frame request is outstanding
    listeners,         \* the registered event listeners
    countsFetch,       \* the page's fetch of the click counts: pending, ok
    obs,               \* what the last step did (draw calls, events, calls out)
    \* the admin edge function
    blocklist,         \* table app_6571a533ec_ip_blocklist: rows in insertion order
    lastBlockOp,       \* per ip, the last block_ip / unblock_ip answered 200
    adminObs,          \* the last admin request: who, what, response, store accesses
    accounts,          \* the accounts action being served: its loop's locals
    \* the click edge function
    ipClicks,          \* table app_6571a533ec_ip_clicks: rows <<ip, country_code>>
    countryCounts,     \* table app_6571a533ec_country_counts: clicks per country
    reqs,              \* the click requests: where each handler stands, its locals
    \* the page (Index)
    hasClicked,        \* const [hasClicked, setHasClicked]
    selected,          \* const [selected, setSelected]
    counts,            \* const [counts, setCounts], as far as handleIncrement writes it
    presses,           \* the handleIncrement calls awaiting supabase.functions.invoke
    invoked,           \* how many times the click function has been invoked
    pageObs            \* what the page's last step did (modal, events dispatched)

wbVars == <<viewport, width, height, projection, landGeo, countryLinesGeo,
            countriesFC, alpha2ToCentroid, pinned, blips, now, initPc, disposed,
            rafPending, listeners, countsFetch, obs>>
adminVars == <<blocklist, lastBlockOp, adminObs, accounts>>
clickVars == <<ipClicks, countryCounts, reqs>>
pageVars == <<hasClicked, selected, counts, presses, invoked, pageObs>>

vars == <<wbVars, adminVars, clickVars, pageVars>>

----------------------------------------------------------------------------
(* Bounds of the model *)

MaxBlips == 1
MaxNow == 840

\* The clock advances between steps by one of these amounts (ms).
ClockSteps == {420, 760}

\* The parent rects the viewport takes.
Viewports == { [w |-> 400, h |-> 200], [w |-> 800, h |-> 400] }

\* Client positions (clientX, clientY) of click and pointermove events.
Points == { <<120, 80>>, <<128, 65>>, <<248, 64>>, <<308, 64>>, <<188, 116>> }

----------------------------------------------------------------------------
(* Program constants *)

NEW_DURATION == 760
REPEAT_DURATION == 420
HoverThreshold == 20
MinPadding == 12

\* <WorldBackground onCountrySelect={handleMapCountrySelect} />: the optional
\* prop is supplied by the page that mounts the component.
onCountrySelectSupplied == TRUE

\* canvas.getBoundingClientRect(): left and top of the canvas in the client area
CanvasOrigin == <<8, 4>>

\* [e.clientX - rect.left, e.clientY - rect.top]
canvasLocal(e) == << e[1] - CanvasOrigin[1], e[2] - CanvasOrigin[2] >>

ListenerNames == {"resize", "click", "pointermove", "pointerleave",
                  "world:pin", "world:blip"}

----------------------------------------------------------------------------
(* Strings *)

Lowers == <<"a","b","c","d","e","f","g","h","i","j","k","l","m",
            "n","o","p","q","r","s","t","u","v","w","x","y","z">>
Uppers == <<"A","B","C","D","E","F","G","H","I","J","K","L","M",
            "N","O","P","Q","R","S","T","U","V","W","X","Y","Z">>

ToUpperChar(c) ==
    IF \E i \in DOMAIN Lowers : Lowers[i] = c
    THEN Uppers[CHOOSE i \in DOMAIN Lowers : Lowers[i] = c]
    ELSE c

\* String.prototype.toUpperCase
ToUpperCase(s) == [i \in DOMAIN s |-> ToUpperChar(s[i])]

\* /^[A-Z]{2}$/
IsAlpha2(s) ==
    /\ Len(s) = 2
    /\ \A i \in 1..2 : \E j \in DOMAIN Uppers : Uppers[j] = s[i]

\* String.prototype.padStart(3, '0')
PadStart3(s) ==
    IF Len(s) >= 3 THEN s
    ELSE [i \in 1..(3 - Len(s)) |-> "0"] \o s

NoCode == <<>>

----------------------------------------------------------------------------
(* JavaScript values carried by event details *)

JsUndefined == [t |-> "undefined", s |-> <<>>, n |-> 0]
JsString(s) == [t |-> "string", s |-> s, n |-> 0]
JsNumber(n) == [t |-> "number", s |-> <<>>, n |-> n]

Truthy(v) ==
    CASE v.t = "undefined" -> FALSE
      [] v.t = "string" -> v.s # <<>>
      [] v.t = "number" -> v.n # 0
      [] OTHER -> TRUE

NoDetail == [present |-> FALSE, code |-> JsUndefined, kind |-> "undefined"]
Detail(code, kind) == [present |-> TRUE, code |-> code, kind |-> kind]

\* detail of the world:pin events dispatched
PinDetails ==
    { NoDetail,
      Detail(JsUndefined, "undefined"),
      Detail(JsNumber(42), "undefined"),
      Detail(JsString(<<"u","s">>), "undefined"),
      Detail(JsString(<<"u","s","a">>), "undefined") }

\* detail of the world:blip events dispatched
BlipDetails ==
    { NoDetail,
      Detail(JsNumber(42), "new"),
      Detail(JsString(<<"u","s">>), "new"),
      Detail(JsString(<<"u","s">>), "repeat"),
      Detail(JsString(<<"U","S">>), "undefined"),
      Detail(JsString(<<"a","f">>), "new"),
      Detail(JsString(<<"z","z">>), "repeat") }

----------------------------------------------------------------------------
(* Geometry: the country feature collection *)

\* A feature: its id (absent, or the digits of String(id)), its polygons as
\* rectangles <<lon0, lat0, lon1, lat1>> and whether d3's path.centroid
\* returns finite numbers for it.
Features ==
    << [hasId |-> TRUE,  id |-> <<"8","4","0">>, finite |-> TRUE,
        rects |-> { <<-12, 2, -8, 6>> }],
       [hasId |-> FALSE, id |-> <<>>,            finite |-> TRUE,
        rects |-> { <<0, 2, 4, 6>> }],
       [hasId |-> TRUE,  id |-> <<"2","5","0">>, finite |-> TRUE,
        rects |-> { <<2, 2, 6, 6>> }],
       [hasId |-> TRUE,  id |-> <<"4">>,         finite |-> FALSE,
        rects |-> { <<8, 2, 12, 6>> }] >>

\* The land outline and the border mesh: lines, each with the latitudes it
\* spans (south to north, in the grid's units of ten degrees).
LandLines ==
    { [name |-> "north coast", south |-> 6, north |-> 7],
      [name |-> "cape",        south |-> -7, north |-> -5],
      [name |-> "antarctica",  south |-> -9, north |-> -7] }

BorderLines ==
    { [name |-> "AA", south |-> 0,  north |-> 0],
      [name |-> "BB", south |-> -7, north |-> -7],
      [name |-> "CC", south |-> -8, north |-> -4] }

\* projection([0, -60]): the latitude of the south gate, in the grid's units
SouthGateLat == -6

\* The extent of the land geometry (lon span, lat span).
LonSpan == 36
LatSpan == 18

\* iso.whereNumeric(nstr)?.alpha2
whereNumeric(nstr) ==
    CASE nstr = <<"8","4","0">> -> <<"U","S">>
      [] nstr = <<"2","5","0">> -> <<"F","R">>
      [] nstr = <<"0","0","4">> -> <<"A","F">>
      [] OTHER -> NoCode

\* alpha2FromNumeric: NoCode stands for null
alpha2FromNumeric(numeric) ==
    LET nstr == PadStart3(numeric)
        a2 == whereNumeric(nstr)
    IN IF a2 # NoCode THEN ToUpperCase(a2) ELSE NoCode

\* (feat.id != null ? String(feat.id) : '').padStart(3, '0') -> alpha2FromNumeric
FeatureAlpha2(feat) ==
    alpha2FromNumeric(PadStart3(IF feat.hasId THEN feat.id ELSE <<>>))

----------------------------------------------------------------------------
(* Projection *)

NoProjection == [set |-> FALSE, k |-> 0, tx |-> 0, ty |-> 0]

Min(a, b) == IF a < b THEN a ELSE b
Max(a, b) == IF a > b THEN a ELSE b

\* geoEquirectangular().fitExtent([[p,p],[w-p,h-p]], landGeo) then scale * 1.06.
\* Scale in pixels per grid unit, rounded down; translate is the centre.
FitProjection(w, h) ==
    LET padding == Max(MinPadding, (Min(w, h) * 28) \div 1000)
        kx == ((w - 2 * padding) * 100) \div LonSpan
        ky == ((h - 2 * padding) * 100) \div LatSpan
    IN [set |-> TRUE,
        k   |-> (Min(kx, ky) * 106) \div 10000,
        tx  |-> w \div 2,
        ty  |-> h \div 2]

\* projection([lon, lat])
Project(proj, ll) == << proj.tx + proj.k * ll[1], proj.ty - proj.k * ll[2] >>

\* An inverse that forgets that screen y grows downwards
InvertNoFlip(proj, p) == [num |-> << p[1] - proj.tx, p[2] - proj.ty >>, den |-> proj.k]

\* projection.invert([x, y]): lon = num[1] / den, lat = num[2] / den
Invert(proj, p) == [num |-> << p[1] - proj.tx, proj.ty - p[2] >>, den |-> proj.k]

\* geoContains(feat, [lon, lat])
GeoContains(feat, ll) ==
    \E r \in feat.rects :
        /\ r[1] * ll.den <= ll.num[1] /\ ll.num[1] <= r[3] * ll.den
        /\ r[2] * ll.den <= ll.num[2] /\ ll.num[2] <= r[4] * ll.den

\* Planar centroid of a feature made of one rectangle.
GeoCentroid(feat) ==
    LET r == CHOOSE r \in feat.rects : TRUE
    IN << (r[1] + r[3]) \div 2, (r[2] + r[4]) \div 2 >>

\* geoPath(projection).centroid(feat): ok is FALSE for a non-finite result
PathCentroid(proj, feat) ==
    IF feat.finite
    THEN [ok |-> TRUE, pos |-> Project(proj, GeoCentroid(feat))]
    ELSE [ok |-> FALSE, pos |-> <<0, 0>>]

----------------------------------------------------------------------------
(* The Centroid Index: a Map in insertion order *)

MapHas(m, code) == \E i \in DOMAIN m : m[i].code = code
MapGet(m, code) == m[CHOOSE i \in DOMAIN m : m[i].code = code].pos
MapSet(m, code, pos) ==
    IF MapHas(m, code)
    THEN [i \in DOMAIN m |-> IF m[i].code = code
                             THEN [code |-> code, pos |-> pos] ELSE m[i]]
    ELSE Append(m, [code |-> code, pos |-> pos])
MapKeys(m) == { m[i].code : i \in DOMAIN m }


\* computeCentroids' loop over countriesFC.features, from feature i on
RECURSIVE CentroidsFrom(_, _, _)
CentroidsFrom(i, proj, m) ==
    IF i > Len(Features) THEN m
    ELSE LET feat == Features[i]
             alpha2 == FeatureAlpha2(feat)
             c == PathCentroid(proj, feat)
         IN IF alpha2 = NoCode THEN CentroidsFrom(i + 1, proj, m)
            ELSE IF c.ok THEN CentroidsFrom(i + 1, proj, MapSet(m, alpha2, c.pos))
            ELSE CentroidsFrom(i + 1, proj, m)

\* computeCentroids that fills the index once and returns when it has entries
computeCentroidsOnce(proj, fc, m) ==
    IF ~proj.set \/ ~fc \/ m # <<>> THEN m
    ELSE CentroidsFrom(1, proj, <<>>)

\* computeCentroids(): the new value of alpha2ToCentroid
computeCentroids(proj, fc, m) ==
    IF ~proj.set \/ ~fc THEN m
    ELSE CentroidsFrom(1, proj, <<>>)

\* setSize(): the new value of projection for the rect vp
setSizeProjection(land, proj, vp) ==
    IF land THEN FitProjection(vp.w, vp.h) ELSE proj

----------------------------------------------------------------------------
(* The data store, the click requests and the page before anything ran *)

MaxReqs == 2
MaxPresses == 2

\* The concurrent requests to the click edge function.
Reqs == 1..MaxReqs

\* The country codes the store and the page hold counters for.
Countries == { <<"U","S">>, <<"G","R">> }

\* The ips (trimmed) that block_ip and unblock_ip requests name.
BlockIps == { <<"9">>, <<"7">> }

AdminObs(action) ==
    [action  |-> action,
     method  |-> "POST",
     caller  |-> [authed |-> FALSE, email |-> <<>>],
     ip      |-> JsUndefined,
     status  |-> 0,
     isAdmin |-> FALSE,
     ops     |-> {}]

\* No accounts action is being served.
IdleAccounts ==
    [pc |-> "idle", users |-> 0, i |-> 0, page |-> 0, total |-> 0, calls |-> 0,
     status |-> 0, count |-> 0]

AdminInit ==
    /\ blocklist = <<>>
    /\ lastBlockOp = [ip \in BlockIps |-> "none"]
    /\ adminObs = AdminObs("none")
    /\ accounts = IdleAccounts

NoResponse == [status |-> 0, country_code |-> <<>>, clicks |-> 0, isNew |-> FALSE]

\* The geolocation lookup has not been made.
NoGeo == [kind |-> "none", country |-> [t |-> "undefined", s |-> <<>>, n |-> 0]]

IdleReq ==
    [pc           |-> "idle",
     ip           |-> <<>>,
     geo          |-> NoGeo,
     country_code |-> <<>>,
     isNew        |-> FALSE,
     inserted     |-> FALSE,
     increments   |-> 0,
     incErr       |-> FALSE,
     resp         |-> NoResponse]

ClickInit ==
    /\ ipClicks = {}
    /\ countryCounts = [c \in Countries |-> 0]
    /\ reqs = [r \in Reqs |-> IdleReq]

\* What the last step of the page did: the dialog it opened, how the
\* invocation it handled ended, the world:blip events it dispatched.
PageObs(op) ==
    [op |-> op, modal |-> "none", error |-> FALSE, isNew |-> FALSE, events |-> <<>>]

\* useState(() => localStorage.getItem('clicked_once') === '1') in a browser
\* that has not clicked; useState('US'); useState({})
PageInit ==
    /\ hasClicked = FALSE
    /\ selected = <<"U","S">>
    /\ counts = [c \in Countries |-> 0]
    /\ presses = <<>>
    /\ invoked = 0
    /\ pageObs = PageObs("mount")

----------------------------------------------------------------------------
(* What a step did *)

Obs(op) ==
    [op         |-> op,
     pt         |-> <<0, 0>>,
     threw      |-> FALSE,
     drew       |-> <<>>,
     pins       |-> {},
     blipsDrawn |-> <<>>,
     selected   |-> <<>>,
     appended   |-> <<>>,
     hover      |-> <<>>,
     detail     |-> NoDetail,
     shapes     |-> <<>>,
     strokes    |-> [land |-> {}, borders |-> {}],
     calls      |-> <<>>]

----------------------------------------------------------------------------
(* Initial state: the effect has run init() up to its first await *)

\* init() that requests the first frame before awaiting the imports
InitEagerFrame ==
    /\ viewport \in Viewports
    /\ width = viewport.w
    /\ height = viewport.h
    /\ projection = NoProjection
    /\ landGeo = FALSE
    /\ countryLinesGeo = FALSE
    /\ countriesFC = FALSE
    /\ alpha2ToCentroid = <<>>
    /\ pinned = {}
    /\ blips = <<>>
    /\ now = 0
    /\ initPc = "awaitLand"
    /\ disposed = FALSE
    /\ rafPending = TRUE
    /\ listeners = {}
    /\ countsFetch = "pending"
    /\ obs = Obs("mount")
    /\ AdminInit /\ ClickInit /\ PageInit

Init ==
    /\ viewport \in Viewports
    /\ width = viewport.w
    /\ height = viewport.h
    /\ projection = NoProjection
    /\ landGeo = FALSE
    /\ countryLinesGeo = FALSE
    /\ countriesFC = FALSE
    /\ alpha2ToCentroid = <<>>
    /\ pinned = {}
    /\ blips = <<>>
    /\ now = 0
    /\ initPc = "awaitLand"
    /\ disposed = FALSE
    /\ rafPending = FALSE
    /\ listeners = {}
    /\ countsFetch = "pending"
    /\ obs = Obs("mount")
    /\ AdminInit /\ ClickInit /\ PageInit

----------------------------------------------------------------------------
(* init(): the part after the try/catch, run in one go *)

InitTail(land, lines, fc) ==
    /\ landGeo' = land
    /\ countryLinesGeo' = lines
    /\ countriesFC' = fc
    /\ width' = viewport.w
    /\ height' = viewport.h
    /\ projection' = setSizeProjection(land, projection, viewport)
    /\ alpha2ToCentroid' = computeCentroids(projection', fc, alpha2ToCentroid)
    /\ rafPending' = TRUE
    /\ listeners' = ListenerNames
    /\ initPc' = "done"
    /\ obs' = Obs("init")
    /\ UNCHANGED <<viewport, pinned, blips, now, disposed, countsFetch,
                   adminVars, clickVars, pageVars>>

\* The land import settles.  ok: the import and feature() succeeded, init
\* goes on to await the countries import.  Otherwise the catch is taken.
LandResolved(ok) ==
    /\ initPc = "awaitLand"
    /\ IF ok
       THEN /\ landGeo' = TRUE
            /\ initPc' = "awaitCountries"
            /\ obs' = Obs("land")
            /\ UNCHANGED <<viewport, width, height, projection, countryLinesGeo,
                           countriesFC, alpha2ToCentroid, pinned, blips, now,
                           disposed, rafPending, listeners, countsFetch,
                   adminVars, clickVars, pageVars>>
       ELSE InitTail(FALSE, FALSE, FALSE)

\* How the countries import can settle: all of it succeeds; the import or
\* mesh() fails (nothing assigned); feature() throws after countryLinesGeo
\* has been assigned.
CountryOutcomes == {"ok", "failMesh", "failFeature"}

CountriesResolved(outcome) ==
    /\ initPc = "awaitCountries"
    /\ InitTail(TRUE, outcome \in {"ok", "failFeature"}, outcome = "ok")

\* The effect cleanup.
Teardown ==
    /\ ~disposed
    /\ disposed' = TRUE
    /\ rafPending' = FALSE      \* rafRef.current is set iff a request was made
    /\ listeners' = {}          \* cleanupFns holds what init has pushed so far
    /\ obs' = Obs("teardown")
    /\ UNCHANGED <<viewport, width, height, projection, landGeo, countryLinesGeo,
                   countriesFC, alpha2ToCentroid, pinned, blips, now, initPc,
                   countsFetch,
                   adminVars, clickVars, pageVars>>

\* Time passes.
Tick(d) ==
    /\ now + d <= MaxNow
    /\ now' = now + d
    /\ obs' = Obs("tick")
    /\ UNCHANGED <<viewport, width, height, projection, landGeo, countryLinesGeo,
                   countriesFC, alpha2ToCentroid, pinned, blips, initPc, disposed,
                   rafPending, listeners, countsFetch,
                   adminVars, clickVars, pageVars>>

\* onResize that clears the index and leaves out the recomputation
ResizeInvalidates(v) ==
    /\ v # viewport
    /\ viewport' = v
    /\ obs' = Obs("resize")
    /\ IF "resize" \in listeners
       THEN /\ width' = v.w
            /\ height' = v.h
            /\ projection' = setSizeProjection(landGeo, projection, v)
            /\ alpha2ToCentroid' = <<>>
       ELSE UNCHANGED <<width, height, projection, alpha2ToCentroid>>
    /\ UNCHANGED <<landGeo, countryLinesGeo, countriesFC, pinned, blips, now,
                   initPc, disposed, rafPending, listeners, countsFetch,
                   adminVars, clickVars, pageVars>>

\* onResize that also empties the blip list
ResizeDropsBlips(v) ==
    /\ v # viewport
    /\ viewport' = v
    /\ obs' = Obs("resize")
    /\ IF "resize" \in listeners
       THEN /\ width' = v.w
            /\ height' = v.h
            /\ projection' = setSizeProjection(landGeo, projection, v)
            /\ alpha2ToCentroid' =
                   computeCentroids(projection', countriesFC, alpha2ToCentroid)
            /\ blips' = <<>>
       ELSE UNCHANGED <<width, height, projection, alpha2ToCentroid, blips>>
    /\ UNCHANGED <<landGeo, countryLinesGeo, countriesFC, pinned, now,
                   initPc, disposed, rafPending, listeners, countsFetch,
                   adminVars, clickVars, pageVars>>

\* The window is resized to rect v; onResize runs when it is registered.
Resize(v) ==
    /\ v # viewport
    /\ viewport' = v
    /\ obs' = Obs("resize")
    /\ IF "resize" \in listeners
       THEN /\ width' = v.w
            /\ height' = v.h
            /\ projection' = setSizeProjection(landGeo, projection, v)
            /\ alpha2ToCentroid' =
                   computeCentroids(projection', countriesFC, alpha2ToCentroid)
       ELSE UNCHANGED <<width, height, projection, alpha2ToCentroid>>
    /\ UNCHANGED <<landGeo, countryLinesGeo, countriesFC, pinned, blips, now,
                   initPc, disposed, rafPending, listeners, countsFetch,
                   adminVars, clickVars, pageVars>>


----------------------------------------------------------------------------
(* frame() *)

\* drawPins with its guard inverted: if (projection) return
drawPinsGuardInverted(proj, pins, m) ==
    IF proj.set THEN {}
    ELSE { [code |-> c, pos |-> MapGet(m, c)] : c \in { c \in pins : MapHas(m, c) } }

\* drawPins(): the pins drawn, each a dot and a ring at its centroid
drawPins(proj, pins, m) ==
    IF ~proj.set THEN {}
    ELSE { [code |-> c, pos |-> MapGet(m, c)] : c \in { c \in pins : MapHas(m, c) } }

\* drawBlips with >= in place of >: a blip is dropped one instant early
BlipLiveStrict(b, t) ==
    LET elapsed == t - b.start
    IN IF b.kind = "new"
       THEN ~(elapsed >= NEW_DURATION)
       ELSE ~(elapsed >= REPEAT_DURATION)

\* drawBlips(now): whether blip b is drawn and pushed to nextBlips
BlipLive(b, t) ==
    LET elapsed == t - b.start
    IN IF b.kind = "new"
       THEN ~(elapsed > NEW_DURATION)
       ELSE ~(elapsed > REPEAT_DURATION)

\* drawBlips(now): nextBlips
nextBlips(bs, t) == SelectSeq(bs, LAMBDA b : BlipLive(b, t))

\* Math.min(1, Math.max(0, elapsed / duration)), as elapsed clamped to
\* [0, duration]: t is clampT / duration
clampT(elapsed, duration) == Min(duration, Max(0, elapsed))

\* radius = 4 + t * 22: the end radius taken for the growth
blipRadiusToEnd(b, t) ==
    LET elapsed == t - b.start
    IN IF b.kind = "new"
       THEN [num |-> 4 * NEW_DURATION + clampT(elapsed, NEW_DURATION) * 22,
             den |-> NEW_DURATION]
       ELSE [num |-> 8 * REPEAT_DURATION + clampT(elapsed, REPEAT_DURATION) * 20,
             den |-> REPEAT_DURATION]

\* radius = 4 + t * 18, radius = 8 + t * 12: the fraction num / den
blipRadius(b, t) ==
    LET elapsed == t - b.start
    IN IF b.kind = "new"
       THEN [num |-> 4 * NEW_DURATION + clampT(elapsed, NEW_DURATION) * 18,
             den |-> NEW_DURATION]
       ELSE [num |-> 8 * REPEAT_DURATION + clampT(elapsed, REPEAT_DURATION) * 12,
             den |-> REPEAT_DURATION]

\* globalAlpha = fade, globalAlpha = Math.max(0, 0.85 * fade), fade = 1 - t:
\* the fraction num / den
blipAlpha(b, t) ==
    LET elapsed == t - b.start
    IN IF b.kind = "new"
       THEN [num |-> NEW_DURATION - clampT(elapsed, NEW_DURATION),
             den |-> NEW_DURATION]
       ELSE [num |-> Max(0, 85 * (REPEAT_DURATION - clampT(elapsed, REPEAT_DURATION))),
             den |-> 100 * REPEAT_DURATION]

\* drawBlips(now): the circles drawn, a filled disc for kind new and a
\* stroked ring otherwise
drawBlips(bs, t) ==
    LET live == nextBlips(bs, t)
    IN [i \in DOMAIN live |->
          [blip   |-> live[i],
           style  |-> IF live[i].kind = "new" THEN "fill" ELSE "stroke",
           radius |-> blipRadius(live[i], t),
           alpha  |-> blipAlpha(live[i], t)]]

\* The clip without the south gate: the whole canvas
yClipNoGate(proj, h) == h

\* yClip = southGate ? southGate[1] : height
yClip(proj, h) == IF proj.set THEN Project(proj, <<0, SouthGateLat>>)[2] ELSE h

\* ctx.rect(0, 0, width, yClip); ctx.clip(); ... ctx.stroke(): what the
\* strokes of the lines leave on the canvas, each line with the rows (top to
\* bottom) its visible part covers
strokeClipped(proj, h, lines) ==
    { [name   |-> l.name,
       top    |-> Project(proj, <<0, l.north>>)[2],
       bottom |-> Min(Project(proj, <<0, l.south>>)[2], yClip(proj, h))] :
      l \in { l \in lines : Project(proj, <<0, l.north>>)[2] < yClip(proj, h) } }

\* drawLand(), drawCountryBoundaries(): the visible strokes of one frame
frameStrokes(proj, h, land, lines) ==
    [land    |-> IF proj.set /\ land THEN strokeClipped(proj, h, LandLines) ELSE {},
     borders |-> IF proj.set /\ lines THEN strokeClipped(proj, h, BorderLines) ELSE {}]

\* frame() with the pins painted before the land and the borders
frameStepsPinsFirst(proj, land, lines) ==
    <<"gradient">>
      \o (IF proj.set THEN <<"pins">> ELSE <<>>)
      \o (IF proj.set /\ land THEN <<"land">> ELSE <<>>)
      \o (IF proj.set /\ lines THEN <<"borders">> ELSE <<>>)
      \o <<"blips">>

\* The draw steps of one frame that paint, in call order.
frameSteps(proj, land, lines) ==
    <<"gradient">>
      \o (IF proj.set /\ land THEN <<"land">> ELSE <<>>)
      \o (IF proj.set /\ lines THEN <<"borders">> ELSE <<>>)
      \o (IF proj.set THEN <<"pins">> ELSE <<>>)
      \o <<"blips">>

\* frame(): clearRect, the draw steps, then requestAnimationFrame(frame)
frameCalls(proj, land, lines) ==
    <<"clearRect">> \o frameSteps(proj, land, lines) \o <<"requestAnimationFrame">>

Frame ==
    /\ rafPending
    /\ blips' = nextBlips(blips, now)
    /\ rafPending' = TRUE
    /\ obs' = [Obs("frame") EXCEPT
                 !.drew = frameSteps(projection, landGeo, countryLinesGeo),
                 !.pins = drawPins(projection, pinned, alpha2ToCentroid),
                 !.blipsDrawn = nextBlips(blips, now),
                 !.shapes = drawBlips(blips, now),
                 !.strokes = frameStrokes(projection, height, landGeo, countryLinesGeo),
                 !.calls = frameCalls(projection, landGeo, countryLinesGeo)]
    /\ UNCHANGED <<viewport, width, height, projection, landGeo, countryLinesGeo,
                   countriesFC, alpha2ToCentroid, pinned, now, initPc, disposed,
                   listeners, countsFetch,
                   adminVars, clickVars, pageVars>>

----------------------------------------------------------------------------
(* onClick *)

\* The scan without its break: the last containing feature wins
RECURSIVE matchLast(_, _)
matchLast(i, ll) ==
    IF i > Len(Features) THEN 0
    ELSE LET rest == matchLast(i + 1, ll)
         IN IF rest # 0 THEN rest
            ELSE IF GeoContains(Features[i], ll) THEN i ELSE 0

\* for (const feat of countriesFC.features) if (geoContains(...)) { matched = feat; break; }
\* The index of the matched feature, 0 for none.
RECURSIVE matchFrom(_, _)
matchFrom(i, ll) ==
    IF i > Len(Features) THEN 0
    ELSE IF GeoContains(Features[i], ll) THEN i
    ELSE matchFrom(i + 1, ll)

\* onClick guarded by if (!projection) return only
onClickResultNoFcGuard(proj, fc, m, cb, e, t) ==
    IF ~proj.set
    THEN [selected |-> <<>>, appended |-> <<>>]
    ELSE LET p == canvasLocal(e)
             matched == matchFrom(1, Invert(proj, p))
             alpha2 == IF matched = 0 THEN NoCode
                       ELSE FeatureAlpha2(Features[matched])
             pos == IF MapHas(m, alpha2) THEN MapGet(m, alpha2) ELSE p
         IN IF alpha2 = NoCode
            THEN [selected |-> <<>>, appended |-> <<>>]
            ELSE [selected |-> IF cb THEN <<alpha2>> ELSE <<>>,
                  appended |-> << [x |-> pos[1], y |-> pos[2],
                                   kind |-> "new", start |-> t] >>]

\* What onClick does for a click at client position e: the callback calls
\* and the blips pushed.
onClickResult(proj, fc, m, cb, e, t) ==
    IF ~proj.set \/ ~fc
    THEN [selected |-> <<>>, appended |-> <<>>]
    ELSE LET p == canvasLocal(e)
             matched == matchFrom(1, Invert(proj, p))
             alpha2 == IF matched = 0 THEN NoCode
                       ELSE FeatureAlpha2(Features[matched])
             pos == IF MapHas(m, alpha2) THEN MapGet(m, alpha2) ELSE p
         IN IF alpha2 = NoCode
            THEN [selected |-> <<>>, appended |-> <<>>]
            ELSE [selected |-> IF cb THEN <<alpha2>> ELSE <<>>,
                  appended |-> << [x |-> pos[1], y |-> pos[2],
                                   kind |-> "new", start |-> t] >>]

Click(p) ==
    /\ "click" \in listeners
    /\ Len(blips) < MaxBlips
    /\ LET r == onClickResult(projection, countriesFC, alpha2ToCentroid,
                              onCountrySelectSupplied, p, now)
       IN /\ blips' = blips \o r.appended
          /\ obs' = [Obs("click") EXCEPT !.pt = p, !.selected = r.selected,
                                         !.appended = r.appended]
    /\ UNCHANGED <<viewport, width, height, projection, landGeo, countryLinesGeo,
                   countriesFC, alpha2ToCentroid, pinned, now, initPc, disposed,
                   rafPending, listeners, countsFetch,
                   adminVars, clickVars, pageVars>>

----------------------------------------------------------------------------
(* onPointerMove, onPointerLeave *)

Dist2(pos, p) == (pos[1] - p[1]) * (pos[1] - p[1]) + (pos[2] - p[2]) * (pos[2] - p[2])

\* The loop over alpha2ToCentroid.entries(): nearest after entries i.. of m
RECURSIVE nearestFrom(_, _, _, _)
nearestFrom(i, m, p, nearest) ==
    IF i > Len(m) THEN nearest
    ELSE LET d2 == Dist2(m[i].pos, p)
         IN IF ~nearest.some \/ d2 < nearest.d2
            THEN nearestFrom(i + 1, m, p, [some |-> TRUE, code |-> m[i].code, d2 |-> d2])
            ELSE nearestFrom(i + 1, m, p, nearest)

\* Math.sqrt(d2) < threshold
withinThresholdStrict(d2) == d2 < HoverThreshold * HoverThreshold

\* Math.sqrt(d2) <= threshold, on integers
withinThreshold(d2) == d2 <= HoverThreshold * HoverThreshold

\* onPointerMove without its early return: an empty index yields a null hover
onPointerMoveResultNoGuard(proj, m, e) ==
    LET p == canvasLocal(e)
        nearest == nearestFrom(1, m, p, [some |-> FALSE, code |-> NoCode, d2 |-> 0])
    IN IF nearest.some /\ withinThreshold(nearest.d2)
       THEN << [code |-> nearest.code, x |-> p[1], y |-> p[2]] >>
       ELSE << [code |-> NoCode, x |-> p[1], y |-> p[2]] >>

\* The world:hover events onPointerMove dispatches for client position e.
onPointerMoveResult(proj, m, e) ==
    IF ~proj.set \/ Len(m) = 0 THEN <<>>
    ELSE LET p == canvasLocal(e)
             nearest == nearestFrom(1, m, p, [some |-> FALSE, code |-> NoCode, d2 |-> 0])
         IN IF nearest.some /\ withinThreshold(nearest.d2)
            THEN << [code |-> nearest.code, x |-> p[1], y |-> p[2]] >>
            ELSE << [code |-> NoCode, x |-> p[1], y |-> p[2]] >>

PointerMove(p) ==
    /\ "pointermove" \in listeners
    /\ obs' = [Obs("pointermove") EXCEPT
                 !.pt = p,
                 !.hover = onPointerMoveResult(projection, alpha2ToCentroid, p)]
    /\ UNCHANGED <<viewport, width, height, projection, landGeo, countryLinesGeo,
                   countriesFC, alpha2ToCentroid, pinned, blips, now, initPc,
                   disposed, rafPending, listeners, countsFetch,
                   adminVars, clickVars, pageVars>>

PointerLeave ==
    /\ "pointerleave" \in listeners
    /\ obs' = [Obs("pointerleave") EXCEPT
                 !.hover = << [code |-> NoCode, x |-> -1, y |-> -1] >>]
    /\ UNCHANGED <<viewport, width, height, projection, landGeo, countryLinesGeo,
                   countriesFC, alpha2ToCentroid, pinned, blips, now, initPc,
                   disposed, rafPending, listeners, countsFetch,
                   adminVars, clickVars, pageVars>>

----------------------------------------------------------------------------
(* onPin *)

\* onPin that replaces the set by the new code
onPinResultReplace(pins, d) ==
    LET code == IF d.present THEN d.code ELSE JsUndefined
    IN IF ~Truthy(code) THEN [threw |-> FALSE, pinned |-> pins]
       ELSE IF code.t # "string" THEN [threw |-> TRUE, pinned |-> pins]
       ELSE [threw |-> FALSE, pinned |-> {ToUpperCase(code.s)}]

\* What onPin does with detail d: it throws (code.toUpperCase is not a
\* function), or returns the new Pin Set.
onPinResult(pins, d) ==
    LET code == IF d.present THEN d.code ELSE JsUndefined
    IN IF ~Truthy(code) THEN [threw |-> FALSE, pinned |-> pins]
       ELSE IF code.t # "string" THEN [threw |-> TRUE, pinned |-> pins]
       ELSE [threw |-> FALSE, pinned |-> pins \cup {ToUpperCase(code.s)}]

PinEvent(d) ==
    /\ "world:pin" \in listeners
    /\ LET r == onPinResult(pinned, d)
       IN /\ pinned' = r.pinned
          /\ obs' = [Obs("world:pin") EXCEPT !.threw = r.threw]
    /\ UNCHANGED <<viewport, width, height, projection, landGeo, countryLinesGeo,
                   countriesFC, alpha2ToCentroid, blips, now, initPc, disposed,
                   rafPending, listeners, countsFetch,
                   adminVars, clickVars, pageVars>>

----------------------------------------------------------------------------
(* The page: the counts fetch and the pin effect *)

\* The rows the counts fetch returns, as the page stores them in counts.
FetchedCounts ==
    << [code |-> <<"U","S">>, clicks |-> 10],
       [code |-> <<"F","R">>, clicks |-> 9] >>

\* if (Number(clicks) >= 10)
PinThreshold == 10

\* The codes the pin effect dispatches a world:pin event for.
pinEffectCodes(cnts) ==
    { cnts[i].code : i \in { i \in DOMAIN cnts : cnts[i].clicks >= PinThreshold } }

\* Object.entries(counts).forEach(...dispatchEvent(world:pin)): the Pin Set
\* after the events of entries i.. have been delivered to onPin; an event
\* dispatched while no listener is registered is delivered to nobody.
RECURSIVE pinEffectFrom(_, _, _, _)
pinEffectFrom(i, cnts, registered, pins) ==
    IF i > Len(cnts) THEN pins
    ELSE IF cnts[i].clicks >= PinThreshold /\ registered
    THEN pinEffectFrom(i + 1, cnts, registered,
             onPinResult(pins, Detail(JsString(cnts[i].code), "undefined")).pinned)
    ELSE pinEffectFrom(i + 1, cnts, registered, pins)

\* fetchAll() resolves with the rows while the page is mounted:
\* setCounts(map), and the effect on [counts] dispatches the pins.  (A
\* fetch that fails leaves counts at {} and dispatches nothing.)
CountsResolved ==
    /\ countsFetch = "pending"
    /\ ~disposed
    /\ countsFetch' = "ok"
    /\ pinned' = pinEffectFrom(1, FetchedCounts, "world:pin" \in listeners, pinned)
    /\ obs' = Obs("counts")
    /\ UNCHANGED <<viewport, width, height, projection, landGeo, countryLinesGeo,
                   countriesFC, alpha2ToCentroid, blips, now, initPc, disposed,
                   rafPending, listeners, adminVars, clickVars, pageVars>>

----------------------------------------------------------------------------
(* onBlip *)

\* The fallback loop: the first feature whose alpha2 is code, 0 for none
RECURSIVE featureOfCode(_, _)
featureOfCode(i, code) ==
    IF i > Len(Features) THEN 0
    ELSE IF FeatureAlpha2(Features[i]) = code THEN i
    ELSE featureOfCode(i + 1, code)

\* onBlip that pushes every external blip with kind repeat
onBlipResultAsRepeat(proj, fc, m, d, t) ==
    IF ~d.present \/ d.code.t # "string"
    THEN [index |-> m, appended |-> <<>>]
    ELSE LET code == ToUpperCase(d.code.s)
         IN IF MapHas(m, code)
            THEN [index |-> m,
                  appended |-> << [x |-> MapGet(m, code)[1], y |-> MapGet(m, code)[2],
                                   kind |-> "repeat", start |-> t] >>]
            ELSE [index |-> m, appended |-> <<>>]

\* What onBlip does with detail d: the new index and the blips pushed.
onBlipResult(proj, fc, m, d, t) ==
    IF ~d.present \/ d.code.t # "string"
    THEN [index |-> m, appended |-> <<>>]
    ELSE LET code == ToUpperCase(d.code.s)
             cached == MapHas(m, code)
             i == IF ~cached /\ proj.set /\ fc THEN featureOfCode(1, code) ELSE 0
             c == IF i = 0 THEN [ok |-> FALSE, pos |-> <<0, 0>>]
                  ELSE PathCentroid(proj, Features[i])
             m2 == IF c.ok THEN MapSet(m, code, c.pos) ELSE m
         IN IF cached \/ c.ok
            THEN LET pos == IF cached THEN MapGet(m, code) ELSE c.pos
                 IN [index |-> m2,
                     appended |-> << [x |-> pos[1], y |-> pos[2],
                                      kind |-> d.kind, start |-> t] >>]
            ELSE [index |-> m2, appended |-> <<>>]

BlipEvent(d) ==
    /\ "world:blip" \in listeners
    /\ Len(blips) < MaxBlips
    /\ LET r == onBlipResult(projection, countriesFC, alpha2ToCentroid, d, now)
       IN /\ alpha2ToCentroid' = r.index
          /\ blips' = blips \o r.appended
          /\ obs' = [Obs("world:blip") EXCEPT !.appended = r.appended, !.detail = d]
    /\ UNCHANGED <<viewport, width, height, projection, landGeo, countryLinesGeo,
                   countriesFC, pinned, now, initPc, disposed, rafPending,
                   listeners, countsFetch,
                   adminVars, clickVars, pageVars>>

----------------------------------------------------------------------------

Next ==
    \/ \E ok \in BOOLEAN : LandResolved(ok)
    \/ \E outcome \in CountryOutcomes : CountriesResolved(outcome)
    \/ Teardown
    \/ \E d \in ClockSteps : Tick(d)
    \/ \E v \in Viewports : Resize(v)
    \/ Frame
    \/ \E p \in Points : Click(p)
    \/ \E p \in Points : PointerMove(p)
    \/ PointerLeave
    \/ \E d \in PinDetails : PinEvent(d)
    \/ \E d \in BlipDetails : BlipEvent(d)
    \/ CountsResolved

Spec == Init /\ [][Next]_vars


----------------------------------------------------------------------------
(* The admin edge function *)

\* The lower-case letter of every upper-case one
LowerOf ==
    [c \in { Uppers[i] : i \in DOMAIN Uppers } |->
        Lowers[CHOOSE i \in DOMAIN Uppers : Uppers[i] = c]]

ToLowerChar(c) == IF c \in DOMAIN LowerOf THEN LowerOf[c] ELSE c

\* String.prototype.toLowerCase
ToLowerCase(s) == [i \in DOMAIN s |-> ToLowerChar(s[i])]

RECURSIVE TrimStart(_)
TrimStart(s) == IF s # <<>> /\ s[1] = " " THEN TrimStart(Tail(s)) ELSE s

RECURSIVE TrimEnd(_)
TrimEnd(s) ==
    IF s # <<>> /\ s[Len(s)] = " " THEN TrimEnd(SubSeq(s, 1, Len(s) - 1)) ELSE s

\* String.prototype.trim
Trim(s) == TrimEnd(TrimStart(s))

ADMIN_EMAIL ==
    <<"s","t","a","t","h","i","s","x","i","l","i","t","s","h","s",
      "@","g","m","a","i","l",".","c","o","m">>

\* Deno.env.get('SUPABASE_URL'), Deno.env.get('SUPABASE_SERVICE_ROLE_KEY'):
\* the platform sets both for every deployed function.
envConfigured == TRUE

\* const perPage = 200; for (let i = 0; i < 100; i++)
perPage == 200
PageCap == 100

\* Who sends the request: nobody signed in, the admin, the admin's address
\* in another case, somebody else, a user without an email.
AdminCallers ==
    { [authed |-> FALSE, email |-> <<>>],
      [authed |-> TRUE,  email |-> ADMIN_EMAIL],
      [authed |-> TRUE,  email |-> [ADMIN_EMAIL EXCEPT ![1] = "S"]],
      [authed |-> TRUE,  email |-> <<"e","v","e","@","x",".","i","o">>],
      [authed |-> TRUE,  email |-> <<>>] }

\* payload.ip of block_ip and unblock_ip requests
PayloadIps ==
    { JsUndefined, JsNumber(42), JsString(<<" ">>), JsString(<<"9">>),
      JsString(<<" ","9"," ">>), JsString(<<"7">>) }

\* payload.reason
PayloadReasons == { JsUndefined, JsString(<<"s">>) }

\* How many users the auth directory holds when accounts is asked.
UserCounts == {0, 1, 200, 201, 19999, 20000, 20001, 20200}

\* The request bodies ("" stands for a body without action, or no body),
\* each with how the store answers (dbOk).
AdminInputs ==
    { [action |-> a, ip |-> JsUndefined, reason |-> JsUndefined, dbOk |-> ok] :
        a \in {"", "verify", "stats", "accounts", "list_blocked_ips",
               "reset_leaderboard", "clear_abuse", "bogus"}, ok \in BOOLEAN }
    \cup { [action |-> a, ip |-> i, reason |-> rsn, dbOk |-> ok] :
            a \in {"block_ip", "unblock_ip"}, i \in PayloadIps,
            rsn \in PayloadReasons, ok \in BOOLEAN }

\* Every signed-in caller passes for the admin.
isAdminOfAnyUser(caller) == caller.authed

\* ADMIN_EMAIL.toLowerCase()
AdminEmailLower == ToLowerCase(ADMIN_EMAIL)

\* email ? email.toLowerCase() === ADMIN_EMAIL.toLowerCase() : false, with
\* email = userData?.user?.email
isAdminOf(caller) ==
    LET email == IF caller.authed THEN caller.email ELSE <<>>
    IN IF email # <<>> THEN ToLowerCase(email) = AdminEmailLower ELSE FALSE

\* (payload?.action as string) || 'verify'
actionOf(a) == IF a = "" THEN "verify" ELSE a

\* (payload?.ip as string | undefined)?.trim() ?? '': threw when ip is
\* neither undefined nor a string (trim is not a function)
ipOf(v) ==
    CASE v.t = "undefined" -> [threw |-> FALSE, s |-> <<>>]
      [] v.t = "string"    -> [threw |-> FALSE, s |-> Trim(v.s)]
      [] OTHER             -> [threw |-> TRUE,  s |-> <<>>]

\* ((payload?.reason as string | undefined)?.trim() ?? null) || null
reasonOf(v) == IF v.t = "string" THEN Trim(v.s) ELSE <<>>

\* supabase.auth.admin.listUsers({ page, perPage }) on a directory of n
\* users: the size of the page and nextPage (0 for null)
listUsers(n, page) ==
    [users    |-> Max(0, Min(perPage, n - (page - 1) * perPage)),
     nextPage |-> IF page * perPage < n THEN page + 1 ELSE 0]

\* One pass of the accounts loop, from its await of listUsers to the next
\* one or to the response: ok is whether listUsers returned without error.
accountsStep(st, ok) ==
    LET data == listUsers(st.users, st.page)
        t == st.total + data.users
        stop == data.nextPage = 0 \/ data.users = 0
    IN IF ~ok
       THEN [st EXCEPT !.pc = "done", !.status = 500, !.calls = st.calls + 1]
       ELSE IF stop \/ ~(st.i + 1 < PageCap)
       THEN [st EXCEPT !.pc = "done", !.status = 200, !.total = t,
                       !.calls = st.calls + 1, !.count = t]
       ELSE [st EXCEPT !.i = st.i + 1, !.page = data.nextPage, !.total = t,
                       !.calls = st.calls + 1]

\* An insert in place of the upsert: the row is added whatever is there.
upsertAsInsert(rows, ip, reason) == Append(rows, [ip |-> ip, reason |-> reason])

\* .upsert({ ip, reason }, { onConflict: 'ip' })
upsert(rows, ip, reason) ==
    IF \E i \in DOMAIN rows : rows[i].ip = ip
    THEN [i \in DOMAIN rows |->
             IF rows[i].ip = ip THEN [ip |-> ip, reason |-> reason] ELSE rows[i]]
    ELSE Append(rows, [ip |-> ip, reason |-> reason])

\* .delete().eq('ip', ip)
deleteEq(rows, ip) == SelectSeq(rows, LAMBDA r : r.ip # ip)

AdminResult(status) ==
    [status |-> status, ops |-> {}, rows |-> <<>>, wipe |-> FALSE,
     blockOp |-> "none", ip |-> <<>>]

\* The handler after the preflight test, for caller and request body in:
\* the response, the store accesses issued and the new blocklist.  The
\* accounts action of an admin is served by AccountsStart and AccountsPage.
adminResult(caller, in, rows) ==
    LET action == actionOf(in.action)
        res(st, ops) == [AdminResult(st) EXCEPT !.ops = ops, !.rows = rows]
        ip == ipOf(in.ip)
    IN IF ~envConfigured THEN res(500, {})
       ELSE IF action = "verify" THEN res(200, {})
       ELSE IF ~isAdminOf(caller) THEN res(403, {})
       ELSE CASE action = "stats" -> res(200, {"read click_events"})
              [] action = "accounts" -> res(0, {"read auth users"})
              [] action = "list_blocked_ips" ->
                    res(IF in.dbOk THEN 200 ELSE 500, {"read ip_blocklist"})
              [] action = "block_ip" ->
                    IF ip.threw THEN res(500, {})
                    ELSE IF ip.s = <<>> THEN res(400, {})
                    ELSE IF ~in.dbOk THEN res(500, {"write ip_blocklist"})
                    ELSE [res(200, {"write ip_blocklist"}) EXCEPT
                             !.rows = upsert(rows, ip.s, reasonOf(in.reason)),
                             !.blockOp = "block", !.ip = ip.s]
              [] action = "unblock_ip" ->
                    IF ip.threw THEN res(500, {})
                    ELSE IF ip.s = <<>> THEN res(400, {})
                    ELSE IF ~in.dbOk THEN res(500, {"delete ip_blocklist"})
                    ELSE [res(200, {"delete ip_blocklist"}) EXCEPT
                             !.rows = deleteEq(rows, ip.s),
                             !.blockOp = "unblock", !.ip = ip.s]
              [] action = "reset_leaderboard" ->
                    [res(200, {"delete country_counts", "delete click_events"})
                        EXCEPT !.wipe = in.dbOk]
              [] action = "clear_abuse" ->
                    IF ~in.dbOk THEN res(500, {"read ip_blocklist"})
                    ELSE IF rows = <<>> THEN res(200, {"read ip_blocklist"})
                    ELSE res(200, {"read ip_blocklist", "read click_events",
                                   "delete click_events"})
              [] OTHER -> res(400, {})

\* A POST request to the admin function, handled to its response.
AdminRequest(caller, in) ==
    LET r == adminResult(caller, in, blocklist)
    IN /\ ~(actionOf(in.action) = "accounts" /\ isAdminOf(caller))
       /\ blocklist' = r.rows
       /\ lastBlockOp' = IF r.blockOp = "none" THEN lastBlockOp
                         ELSE [lastBlockOp EXCEPT ![r.ip] = r.blockOp]
       /\ countryCounts' = IF r.wipe THEN [c \in Countries |-> 0] ELSE countryCounts
       /\ adminObs' = [AdminObs(in.action) EXCEPT
                         !.caller = caller, !.ip = in.ip,
                         !.status = r.status,
                         !.isAdmin = isAdminOf(caller),
                         !.ops = r.ops]
       /\ UNCHANGED <<wbVars, accounts, ipClicks, reqs, pageVars>>

\* An OPTIONS request: answered 204 before the body is read.
AdminPreflight ==
    /\ adminObs' = [AdminObs("") EXCEPT !.method = "OPTIONS", !.status = 204]
    /\ UNCHANGED <<wbVars, blocklist, lastBlockOp, accounts, clickVars, pageVars>>

\* An admin's accounts request passes the checks and enters the loop, the
\* directory holding n users.
AccountsStart(caller, n) ==
    /\ accounts.pc # "loop"
    /\ envConfigured /\ isAdminOf(caller)
    /\ accounts' = [IdleAccounts EXCEPT !.pc = "loop", !.users = n, !.page = 1]
    /\ adminObs' = [AdminObs("accounts") EXCEPT !.caller = caller, !.isAdmin = TRUE]
    /\ UNCHANGED <<wbVars, blocklist, lastBlockOp, clickVars, pageVars>>

\* listUsers settles and the loop runs to its next await or to the response.
AccountsPage(ok) ==
    /\ accounts.pc = "loop"
    /\ accounts' = accountsStep(accounts, ok)
    /\ adminObs' = [adminObs EXCEPT !.status = accounts'.status,
                                    !.ops = {"read auth users"}]
    /\ UNCHANGED <<wbVars, blocklist, lastBlockOp, clickVars, pageVars>>

\* The component is not mounted: every variable of it at its first value.
WbIdle ==
    /\ viewport = [w |-> 400, h |-> 200]
    /\ width = viewport.w
    /\ height = viewport.h
    /\ projection = NoProjection
    /\ landGeo = FALSE
    /\ countryLinesGeo = FALSE
    /\ countriesFC = FALSE
    /\ alpha2ToCentroid = <<>>
    /\ pinned = {}
    /\ blips = <<>>
    /\ now = 0
    /\ initPc = "awaitLand"
    /\ disposed = FALSE
    /\ rafPending = FALSE
    /\ listeners = {}
    /\ countsFetch = "pending"
    /\ obs = Obs("mount")

InitAdmin == WbIdle /\ AdminInit /\ ClickInit /\ PageInit

NextAdmin ==
    \/ \E caller \in AdminCallers, in \in AdminInputs : AdminRequest(caller, in)
    \/ AdminPreflight

SpecAdmin == InitAdmin /\ [][NextAdmin]_vars

NextAccounts ==
    \/ \E caller \in AdminCallers, n \in UserCounts : AccountsStart(caller, n)
    \/ \E ok \in BOOLEAN : AccountsPage(ok)

SpecAccounts == InitAdmin /\ [][NextAccounts]_vars

----------------------------------------------------------------------------
(* The click edge function *)

\* s.split(",")[0]
RECURSIVE FirstField(_)
FirstField(s) ==
    IF s = <<>> \/ s[1] = "," THEN <<>> ELSE <<s[1]>> \o FirstField(Tail(s))

\* The headers of a request ("" for a header that is not sent)
ClickHeaders ==
    { [fwd |-> f, cf |-> c, real |-> r] :
        f \in { <<>>, <<" ">>, <<" ","9",",","7">> },
        c \in { <<>>, <<"9">> },
        r \in { <<>>, <<"9">> } }

\* (fwd.split(",")[0] || "").trim() || cf-connecting-ip || x-real-ip || ""
clientIp(h) ==
    LET first == Trim(FirstField(h.fwd))
    IN IF first # <<>> THEN first
       ELSE IF h.cf # <<>> THEN h.cf
       ELSE IF h.real # <<>> THEN h.real
       ELSE <<>>

\* How the lookup at ipapi.co ends: fetch throws, a response that is not
\* ok, or an ok response with its country field.
GeoOutcomes ==
    { [kind |-> "throws", country |-> JsUndefined] }
    \cup { [kind |-> "not ok", country |-> c] :
             c \in { JsUndefined, JsString(<<"g","r">>) } }
    \cup { [kind |-> "ok", country |-> c] :
             c \in { JsUndefined, JsString(<<"g","r">>), JsString(<<"u","s","a">>),
                     JsString(<<"g","1">>) } }

\* The body is read whatever the status of the response.
countryOfIgnoresOk(geo) ==
    IF geo.kind = "throws" THEN <<"U","S">>
    ELSE LET c == IF geo.country.t = "string" /\ geo.country.s # <<>>
                  THEN ToUpperCase(geo.country.s)
                  ELSE <<>>
         IN IF c # <<>> /\ IsAlpha2(c) THEN c ELSE <<"U","S">>

\* let country_code = "US"; try { ... if (c && /^[A-Z]{2}$/.test(c))
\* country_code = c } catch { }
countryOf(geo) ==
    IF geo.kind # "ok" THEN <<"U","S">>
    ELSE LET c == IF geo.country.t = "string" /\ geo.country.s # <<>>
                  THEN ToUpperCase(geo.country.s)
                  ELSE <<>>
         IN IF c # <<>> /\ IsAlpha2(c) THEN c ELSE <<"U","S">>

\* An insert whose error is not looked at: the request stays new.
insertResultIgnoresError(req, rows, ok) ==
    IF ok /\ << req.ip, req.country_code >> \notin rows
    THEN [rows |-> rows \cup { << req.ip, req.country_code >> },
          req  |-> [req EXCEPT !.pc = "inc", !.isNew = TRUE, !.inserted = TRUE]]
    ELSE [rows |-> rows, req |-> [req EXCEPT !.pc = "inc", !.isNew = TRUE]]

\* .insert({ ip, country_code }) into the ip-clicks table, (ip, country_code)
\* being unique in it, and if (insertErr) isNew = false; ok is whether the
\* store works.
insertResult(req, rows, ok) ==
    IF ok /\ << req.ip, req.country_code >> \notin rows
    THEN [rows |-> rows \cup { << req.ip, req.country_code >> },
          req  |-> [req EXCEPT !.pc = "inc", !.isNew = TRUE, !.inserted = TRUE]]
    ELSE [rows |-> rows, req |-> [req EXCEPT !.pc = "inc", !.isNew = FALSE]]

\* An increment that answers with the value it read, not the one it wrote.
rpcIncrementStale(cnts, code, ok) ==
    IF ok
    THEN [error |-> FALSE, data |-> cnts[code],
          counts |-> [cnts EXCEPT ![code] = @ + 1]]
    ELSE [error |-> TRUE, data |-> 0, counts |-> cnts]

\* supabase.rpc("app_6571a533ec_increment", { p_code }): one atomic step of
\* the store that adds one to the counter of the country and returns the
\* new value; ok is whether the store works.
rpcIncrement(cnts, code, ok) ==
    IF ok
    THEN [error |-> FALSE, data |-> cnts[code] + 1,
          counts |-> [cnts EXCEPT ![code] = @ + 1]]
    ELSE [error |-> TRUE, data |-> 0, counts |-> cnts]

\* A POST request arrives: the client is created and the client IP read
\* from the headers, and the lookup is sent; boots is whether the import
\* and the client creation succeed.
ClickReceive(r, h, boots) ==
    /\ reqs[r].pc = "idle"
    /\ reqs' = [reqs EXCEPT ![r] =
                   IF boots /\ envConfigured
                   THEN [@ EXCEPT !.pc = "geo", !.ip = clientIp(h)]
                   ELSE [@ EXCEPT !.pc = "done", !.ip = clientIp(h),
                                  !.resp = [NoResponse EXCEPT !.status = 500]]]
    /\ UNCHANGED <<wbVars, adminVars, ipClicks, countryCounts, pageVars>>

\* The lookup settles; the handler fixes country_code and, when there is a
\* client IP, sends the insert, otherwise the increment.
ClickGeo(r, geo) ==
    /\ reqs[r].pc = "geo"
    /\ reqs' = [reqs EXCEPT ![r] =
                   [@ EXCEPT !.geo = geo,
                             !.country_code = countryOf(geo),
                             !.pc = IF reqs[r].ip # <<>> THEN "insert" ELSE "inc",
                             !.isNew = FALSE]]
    /\ UNCHANGED <<wbVars, adminVars, ipClicks, countryCounts, pageVars>>

\* The insert is executed by the store and its result handled; the
\* increment is sent.
ClickInsert(r, ok) ==
    /\ reqs[r].pc = "insert"
    /\ LET res == insertResult(reqs[r], ipClicks, ok)
       IN /\ ipClicks' = res.rows
          /\ reqs' = [reqs EXCEPT ![r] = res.req]
    /\ UNCHANGED <<wbVars, adminVars, countryCounts, pageVars>>

\* The increment is executed by the store and the response sent.
ClickIncrement(r, ok) ==
    /\ reqs[r].pc = "inc"
    /\ LET inc == rpcIncrement(countryCounts, reqs[r].country_code, ok)
       IN /\ countryCounts' = inc.counts
          /\ reqs' = [reqs EXCEPT ![r] =
                IF inc.error
                THEN [@ EXCEPT !.pc = "done", !.incErr = TRUE,
                               !.resp = [NoResponse EXCEPT !.status = 500]]
                ELSE [@ EXCEPT !.pc = "done",
                               !.increments = @ + 1,
                               !.resp = [status       |-> 200,
                                         country_code |-> reqs[r].country_code,
                                         clicks       |-> inc.data,
                                         isNew        |-> reqs[r].isNew]]]
    /\ UNCHANGED <<wbVars, adminVars, ipClicks, pageVars>>

InitClick == WbIdle /\ AdminInit /\ ClickInit /\ PageInit

NextClick ==
    \/ \E r \in Reqs, h \in ClickHeaders, boots \in BOOLEAN : ClickReceive(r, h, boots)
    \/ \E r \in Reqs, geo \in GeoOutcomes : ClickGeo(r, geo)
    \/ \E r \in Reqs, ok \in BOOLEAN : ClickInsert(r, ok)
    \/ \E r \in Reqs, ok \in BOOLEAN : ClickIncrement(r, ok)

SpecClick == InitClick /\ [][NextClick]_vars

----------------------------------------------------------------------------
(* The page: the button and the map selection *)

\* normalizeCountryCode: undefined (here <<>>) unless the trimmed,
\* upper-cased input is two letters
normalizeCountryCode(v) ==
    IF v.t # "string" \/ v.s = <<>> THEN <<>>
    ELSE LET code == ToUpperCase(Trim(v.s))
         IN IF IsAlpha2(code) THEN code ELSE <<>>

\* data of supabase.functions.invoke when there is no error: null, or the
\* body of the click function's response.
ClickData ==
    { [country_code |-> JsUndefined, clicks |-> JsUndefined, isNew |-> FALSE] }
    \cup { [country_code |-> JsString(c), clicks |-> JsNumber(n), isNew |-> new] :
             c \in { <<"G","R">>, <<"u","s">> }, n \in {1, 7}, new \in BOOLEAN }

\* How an invocation ends
InvokeOutcomes ==
    { [error |-> TRUE,
       data  |-> [country_code |-> JsUndefined, clicks |-> JsUndefined, isNew |-> FALSE]] }
    \cup { [error |-> FALSE, data |-> d] : d \in ClickData }

\* Codes the map hands to onCountrySelect
SelectCodes == { JsString(<<"G","R">>), JsString(<<"u","s">>), JsString(<<"x">>) }

\* The part of handleIncrement after the await (lines 432 to 459), run
\* with the selected and counts of the render in which the button was
\* pressed: the country, the counter update and the events dispatched.
afterInvoke(p, out) ==
    LET code0 == IF p.selected # <<>> THEN p.selected ELSE <<"U","S">>
        norm == normalizeCountryCode(out.data.country_code)
        code == IF out.error THEN code0
                ELSE IF norm # <<>> THEN norm ELSE code0
        clicksAfter == IF out.data.clicks.t = "number" THEN out.data.clicks.n
                       ELSE p.counts[code] + 1
        isNew == ~out.error /\ out.data.isNew
        fallback == IF out.error /\ p.selected # <<>>
                    THEN << [code |-> p.selected, kind |-> "repeat"] >>
                    ELSE <<>>
    IN [code   |-> code,
        set    |-> ~out.error,
        clicks |-> clicksAfter,
        isNew  |-> isNew,
        events |-> fallback \o
                   << [code |-> code, kind |-> IF isNew THEN "new" ELSE "repeat"] >>]

\* The button is pressed: handleIncrement up to its await, or to its return
\* when hasClicked is set in the current render.
Press ==
    IF hasClicked
    THEN /\ pageObs' = [PageObs("press") EXCEPT !.modal = "already"]
         /\ UNCHANGED <<wbVars, adminVars, clickVars, hasClicked, selected,
                        counts, presses, invoked>>
    ELSE /\ Len(presses) < MaxPresses
         /\ presses' = Append(presses, [pc |-> "pending", selected |-> selected,
                                        counts |-> counts])
         /\ invoked' = invoked + 1
         /\ pageObs' = PageObs("press")
         /\ UNCHANGED <<wbVars, adminVars, clickVars, hasClicked, selected, counts>>

\* The invocation of press i settles and handleIncrement runs to its end.
InvokeResolved(i, out) ==
    /\ i \in DOMAIN presses
    /\ presses[i].pc = "pending"
    /\ LET r == afterInvoke(presses[i], out)
       IN /\ counts' = IF r.set THEN [counts EXCEPT ![r.code] = r.clicks] ELSE counts
          /\ selected' = r.code
          /\ pageObs' = [PageObs("resolved") EXCEPT
                            !.error = out.error, !.isNew = out.data.isNew,
                            !.events = r.events]
    /\ hasClicked' = TRUE
    /\ presses' = [presses EXCEPT ![i].pc = "done"]
    /\ UNCHANGED <<wbVars, adminVars, clickVars, invoked>>

\* handleMapCountrySelect
MapSelect(v) ==
    /\ selected' = IF normalizeCountryCode(v) # <<>> THEN normalizeCountryCode(v)
                   ELSE selected
    /\ pageObs' = PageObs("select")
    /\ UNCHANGED <<wbVars, adminVars, clickVars, hasClicked, counts, presses, invoked>>

InitPage == WbIdle /\ AdminInit /\ ClickInit /\ PageInit

NextPage ==
    \/ Press
    \/ \E i \in 1..MaxPresses, out \in InvokeOutcomes : InvokeResolved(i, out)
    \/ \E v \in SelectCodes : MapSelect(v)

SpecPage == InitPage /\ [][NextPage]_vars

----------------------------------------------------------------------------
(* Helpers of the properties *)

Range(f) == { f[i] : i \in DOMAIN f }

\* The features that contain the inverse-projected canvas point of the
\* client position e.
Containing(e) ==
    { i \in DOMAIN Features :
        GeoContains(Features[i],
                    Invert(projection, << e[1] - CanvasOrigin[1], e[2] - CanvasOrigin[2] >>)) }

\* The load ended in the catch: some geometry is missing.
LoadFailed == initPc = "done" /\ ~(landGeo /\ countryLinesGeo /\ countriesFC)

Duration(kind) == IF kind = "new" THEN NEW_DURATION ELSE REPEAT_DURATION

\* A detail whose code is a string of two letters once upper-cased.
ValidCode(d) ==
    d.present /\ d.code.t = "string" /\ IsAlpha2(ToUpperCase(d.code.s))

----------------------------------------------------------------------------
(* C1 *)

\* C1: once the teardown has run, no animation-frame request is pending,
\* no frame runs, none of the six listeners is registered, and init does
\* not run its tail (setSize, projection, centroids) any more.
C1_TeardownIsFinal ==
    disposed =>
        /\ ~rafPending
        /\ listeners = {}
        /\ obs.op \notin {"init", "frame"}

----------------------------------------------------------------------------
(* C2 *)

\* C2: in every frame a blip of kind new or repeat whose elapsed time is at
\* most its kind's duration is drawn and kept, one whose elapsed time
\* exceeds it is neither drawn nor kept; and a blip in the list after any
\* step was in it before the step or has just been created (start = now),
\* so a removed blip does not come back.
C2_BlipLifetime ==
    [][ /\ obs'.op = "frame" =>
             \A i \in DOMAIN blips :
                 blips[i].kind \in {"new", "repeat"} =>
                     IF now - blips[i].start <= Duration(blips[i].kind)
                     THEN /\ blips[i] \in Range(obs'.blipsDrawn)
                          /\ blips[i] \in Range(blips')
                     ELSE /\ blips[i] \notin Range(obs'.blipsDrawn)
                          /\ blips[i] \notin Range(blips')
        /\ \A b \in Range(blips') :
               \/ b \in Range(blips)
               \/ b.start = now' /\ obs'.op \in {"click", "world:blip"}
      ]_vars

\* A frame drew a repeat blip exactly at the end of its duration.
C2_Witness ==
    /\ obs.op = "frame"
    /\ \E b \in Range(obs.blipsDrawn) :
           b.kind = "repeat" /\ now - b.start = REPEAT_DURATION
    /\ blips = obs.blipsDrawn

----------------------------------------------------------------------------
(* C3 *)

\* C3 as stated: a click inside a country polygon invokes the selection
\* callback exactly once with the alpha-2 code of the first containing
\* feature and appends exactly one blip of kind new, at the cached centroid
\* or at the click point.
C3_AsStated ==
    (obs.op = "click" /\ projection.set /\ countriesFC /\ Containing(obs.pt) # {}) =>
        LET i == CHOOSE i \in Containing(obs.pt) : \A j \in Containing(obs.pt) : i <= j
            a2 == FeatureAlpha2(Features[i])
        IN /\ obs.selected = <<a2>>
           /\ a2 # NoCode
           /\ Len(obs.appended) = 1
           /\ obs.appended[1].kind = "new"

\* C3 amended: the first containing feature is the match; when its numeric
\* id maps to an alpha-2 code the callback is invoked exactly once with it
\* and exactly one blip of kind new, started now, is appended at the cached
\* centroid, or at the click point when the index has no entry; when the id
\* has no mapping nothing is invoked and nothing appended.
C3_ClickSelectsFirstMatch ==
    (obs.op = "click" /\ projection.set /\ countriesFC /\ Containing(obs.pt) # {}) =>
        LET i == CHOOSE i \in Containing(obs.pt) : \A j \in Containing(obs.pt) : i <= j
            a2 == FeatureAlpha2(Features[i])
            at == IF \E k \in DOMAIN alpha2ToCentroid : alpha2ToCentroid[k].code = a2
                  THEN MapGet(alpha2ToCentroid, a2)
                  ELSE << obs.pt[1] - CanvasOrigin[1], obs.pt[2] - CanvasOrigin[2] >>
        IN IF a2 = NoCode
           THEN obs.selected = <<>> /\ obs.appended = <<>>
           ELSE /\ obs.selected = <<a2>>
                /\ obs.appended =
                       << [x |-> at[1], y |-> at[2], kind |-> "new", start |-> now] >>
                /\ Len(blips) >= 1
                /\ blips[Len(blips)] = obs.appended[1]

\* A click selected US and its blip sits at the cached centroid.
C3_Witness ==
    /\ obs.op = "click"
    /\ obs.selected = << <<"U","S">> >>
    /\ Len(obs.appended) = 1
    /\ <<obs.appended[1].x, obs.appended[1].y>> = MapGet(alpha2ToCentroid, <<"U","S">>)

----------------------------------------------------------------------------
(* C4 *)

\* C4: a pointer-move handled with a non-empty index emits one hover event
\* at the pointer's position, whose code is that of a centroid at minimum
\* distance when that distance is at most 20 px, and null when every
\* centroid is farther than 20 px.
C4_HoverNearest ==
    (obs.op = "pointermove" /\ Len(alpha2ToCentroid) > 0) =>
        /\ Len(obs.hover) = 1
        /\ obs.hover[1].x = obs.pt[1] - CanvasOrigin[1]
        /\ obs.hover[1].y = obs.pt[2] - CanvasOrigin[2]
        /\ LET m == alpha2ToCentroid
               at == << obs.pt[1] - CanvasOrigin[1], obs.pt[2] - CanvasOrigin[2] >>
               near == { i \in DOMAIN m :
                           Dist2(m[i].pos, at) <= HoverThreshold * HoverThreshold }
           IN IF near = {}
              THEN obs.hover[1].code = NoCode
              ELSE \E i \in near :
                      /\ obs.hover[1].code = m[i].code
                      /\ \A j \in DOMAIN m :
                             Dist2(m[i].pos, at) <= Dist2(m[j].pos, at)

\* The pointer is exactly 20 px from the US centroid and the event names US.
C4_Witness ==
    /\ obs.op = "pointermove"
    /\ Len(obs.hover) = 1
    /\ obs.hover[1].code = <<"U","S">>
    /\ Dist2(MapGet(alpha2ToCentroid, <<"U","S">>),
             << obs.hover[1].x, obs.hover[1].y >>) = HoverThreshold * HoverThreshold


----------------------------------------------------------------------------
(* C5 *)

\* C5: no step removes a code from the Pin Set.
C5_PinSetGrows == [][pinned \subseteq pinned']_vars

\* The Pin Set has grown twice.
C5_Witness == Cardinality(pinned) = 2 /\ obs.op = "world:pin"

----------------------------------------------------------------------------
(* C6 *)

----------------------------------------------------------------------------
(* C7 *)

\* C7: every key of the Pin Set and of the Centroid Index is exactly two
\* uppercase letters.
C7_KeysAreAlpha2 ==
    /\ \A c \in pinned : IsAlpha2(c)
    /\ \A c \in MapKeys(alpha2ToCentroid) : IsAlpha2(c)

----------------------------------------------------------------------------
(* C8 *)

\* C8: handling a world:pin or world:blip event never throws, and an event
\* whose code is not valid leaves the Pin Set and the blip list unchanged.
C8_EventsNeverThrow ==
    [][ /\ obs'.op \in {"world:pin", "world:blip"} => ~obs'.threw
        /\ \A d \in PinDetails :
               (PinEvent(d) /\ ~ValidCode(d)) => (pinned' = pinned /\ blips' = blips)
        /\ \A d \in BlipDetails :
               (BlipEvent(d) /\ ~ValidCode(d)) => (pinned' = pinned /\ blips' = blips)
      ]_vars

----------------------------------------------------------------------------
(* C9 *)

\* C9 as stated: after a failed load every frame is background-only, no
\* click selects or appends, no pointer-move reports a country.
C9_AsStated ==
    LoadFailed =>
        /\ obs.op = "frame" => obs.drew = <<"gradient", "blips">>
                                 /\ obs.pins = {} /\ obs.blipsDrawn = <<>>
        /\ obs.op = "click" => obs.selected = <<>> /\ obs.appended = <<>>
        /\ obs.op = "pointermove" => \A i \in DOMAIN obs.hover : obs.hover[i].code = NoCode

\* C9 amended: init runs to its end without an error (the first frame is
\* requested, the listeners are registered); after a failed load no click
\* selects or appends, no
\* pointer-move reports a country, no pin and no blip is drawn, and every
\* frame paints the gradient; the land outline is drawn exactly when the
\* land geometry was converted before the failure, the border lines exactly
\* when the border mesh was; a failure of the land import or conversion
\* leaves neither.
C9_DegradedScene ==
    LoadFailed =>
        /\ obs.op = "frame" =>
              /\ obs.drew[1] = "gradient"
              /\ ("land" \in Range(obs.drew)) <=> landGeo
              /\ ("borders" \in Range(obs.drew)) <=> countryLinesGeo
              /\ obs.pins = {} /\ obs.blipsDrawn = <<>>
        /\ ~landGeo => ~countryLinesGeo /\ ~countriesFC /\ ~projection.set
        /\ obs.op = "click" => obs.selected = <<>> /\ obs.appended = <<>>
        /\ obs.op = "pointermove" => \A i \in DOMAIN obs.hover : obs.hover[i].code = NoCode
        /\ blips = <<>>
        /\ obs.op = "init" => ~obs.threw /\ rafPending /\ listeners = ListenerNames

\* A click landed while the land is drawn and the countries are missing.
C9_Witness ==
    /\ LoadFailed /\ landGeo /\ ~countriesFC
    /\ obs.op = "click"
    /\ Containing(obs.pt) # {}

----------------------------------------------------------------------------
(* C10 *)

\* C10 as stated: before the geometry load has settled the animation loop
\* is already running.
C10_AsStated == (initPc # "done" /\ ~disposed) => rafPending

\* C10 amended: until both imports have settled no frame is requested or
\* rendered and no listener is registered; the first frame is requested by
\* the step that ends the load.
C10_NoFrameBeforeLoad ==
    /\ initPc # "done" => ~rafPending /\ obs.op # "frame" /\ listeners = {}
    /\ obs.op = "init" => rafPending /\ initPc = "done"

\* The land import has settled, time has passed, and no frame is requested.
C10_Witness ==
    initPc = "awaitCountries" /\ landGeo /\ now > 0 /\ ~rafPending /\ ~disposed

----------------------------------------------------------------------------
(* C11 *)

\* C11: in every state, and so whenever a frame or a handler reads the
\* Centroid Index, each stored coordinate is the centroid of a feature with
\* that code under the projection now in effect, and that projection is
\* the one fitted to the current canvas size.
C11_IndexMatchesProjection ==
    \A i \in DOMAIN alpha2ToCentroid :
        /\ projection.set
        /\ projection = FitProjection(width, height)
        /\ \E j \in DOMAIN Features :
               /\ FeatureAlpha2(Features[j]) = alpha2ToCentroid[i].code
               /\ Features[j].finite
               /\ alpha2ToCentroid[i].pos = Project(projection, GeoCentroid(Features[j]))

\* A resize to the large viewport was handled and the US centroid sits where
\* the new projection puts it.
C11_Witness ==
    /\ obs.op = "resize"
    /\ projection = FitProjection(800, 400)
    /\ Len(alpha2ToCentroid) = 2
    /\ MapGet(alpha2ToCentroid, <<"U","S">>) = <<180, 112>>

----------------------------------------------------------------------------
(* C12 *)

\* C12: a resize leaves the set of codes of the Centroid Index unchanged,
\* and leaves the index empty when the country features are absent.
C12_ResizeKeepsCodes ==
    [][ obs'.op = "resize" =>
          /\ MapKeys(alpha2ToCentroid') = MapKeys(alpha2ToCentroid)
          /\ ~countriesFC => alpha2ToCentroid' = <<>>
      ]_vars

\* A resize was handled with geometry loaded: both codes are still there, at
\* the coordinates of the small viewport.
C12_Witness ==
    /\ obs.op = "resize"
    /\ "resize" \in listeners
    /\ width = 400
    /\ MapKeys(alpha2ToCentroid) = { <<"U","S">>, <<"F","R">> }
    /\ MapGet(alpha2ToCentroid, <<"F","R">>) = <<240, 60>>

----------------------------------------------------------------------------
(* C13 *)

\* C13: once the counts fetch has resolved, every code whose count is at
\* least 10 is in the Pin Set: each world:pin event the page dispatched
\* while the component was mounted has added its code, whether the fetch
\* resolved before or after the geometry load.
C13_DispatchedPinsAdded ==
    countsFetch = "ok" => pinEffectCodes(FetchedCounts) \subseteq pinned

----------------------------------------------------------------------------
(* C14 *)

\* C14 as stated: every pointer-move handled after init emits exactly one
\* hover event, also with an empty index or without a projection.
C14_AsStated == obs.op = "pointermove" => Len(obs.hover) = 1

\* C14 amended: a pointer-move handled while a projection exists and the
\* Centroid Index is not empty emits exactly one hover event, within the
\* handler, at the pointer's canvas position; a pointer-move handled
\* without a projection or with an empty index emits none.
C14_HoverWhenIndexed ==
    obs.op = "pointermove" =>
        IF projection.set /\ Len(alpha2ToCentroid) > 0
        THEN /\ Len(obs.hover) = 1
             /\ << obs.hover[1].x, obs.hover[1].y >> =
                    << obs.pt[1] - CanvasOrigin[1], obs.pt[2] - CanvasOrigin[2] >>
        ELSE obs.hover = <<>>

\* A pointer-move was handled with a projection and an empty index, and no
\* hover event went out.
C14_Witness ==
    /\ obs.op = "pointermove"
    /\ projection.set
    /\ alpha2ToCentroid = <<>>
    /\ obs.hover = <<>>

----------------------------------------------------------------------------
(* C15 *)

\* C15: a world:blip event whose code is a string that, upper-cased, has a
\* centroid in the index, or for which a centroid can be computed from the
\* loaded features under the current projection, appends exactly one blip
\* at that centroid with the event's kind and start = now; any other
\* world:blip event leaves the blip list as it was.
C15_BlipAtCentroid ==
    [][ obs'.op = "world:blip" =>
          LET d == obs'.detail
              str == d.present /\ d.code.t = "string"
              code == IF str THEN ToUpperCase(d.code.s) ELSE NoCode
              has == str /\ code \in MapKeys(alpha2ToCentroid)
              js == { j \in DOMAIN Features :
                        FeatureAlpha2(Features[j]) = code /\ Features[j].finite }
              computable == str /\ projection.set /\ countriesFC /\ js # {}
          IN IF has
             THEN blips' = Append(blips,
                      [x |-> MapGet(alpha2ToCentroid, code)[1],
                       y |-> MapGet(alpha2ToCentroid, code)[2],
                       kind |-> d.kind, start |-> now])
             ELSE IF computable
             THEN \E j \in js :
                      LET at == Project(projection, GeoCentroid(Features[j]))
                      IN blips' = Append(blips,
                             [x |-> at[1], y |-> at[2], kind |-> d.kind, start |-> now])
             ELSE blips' = blips
      ]_vars

\* A world:blip event of kind new was handled after time has passed and its
\* blip sits at the cached US centroid.
C15_Witness ==
    /\ obs.op = "world:blip"
    /\ now > 0
    /\ Len(obs.appended) = 1
    /\ obs.appended[1].kind = "new"
    /\ obs.appended[1].start = now
    /\ blips = obs.appended
    /\ << blips[1].x, blips[1].y >> = MapGet(alpha2ToCentroid, <<"U","S">>)

----------------------------------------------------------------------------
(* C16 *)

\* C16: every blip of the live list has kind new or repeat.
C16_KindsAreNewOrRepeat ==
    \A i \in DOMAIN blips : blips[i].kind \in {"new", "repeat"}

----------------------------------------------------------------------------
(* C17 *)

\* C17 as stated: with geometry loaded, a click at exactly the coordinate the
\* Centroid Index stores for a country reports that country's code through
\* the selection callback.
C17_AsStated ==
    (obs.op = "click" /\ landGeo /\ countriesFC) =>
        \A i \in DOMAIN alpha2ToCentroid :
            alpha2ToCentroid[i].pos =
                << obs.pt[1] - CanvasOrigin[1], obs.pt[2] - CanvasOrigin[2] >>
            => obs.selected = << alpha2ToCentroid[i].code >>

\* C17 amended: with geometry loaded, a click at exactly the coordinate the
\* Centroid Index stores for a country reports that country's code when the
\* country's own geometry contains its centroid and no earlier feature of
\* the collection does; when an earlier feature contains the centroid, the
\* first such feature decides: its code is reported, or nothing when its
\* id has no alpha-2 mapping.
C17_ClickAtCentroid ==
    (obs.op = "click" /\ landGeo /\ countriesFC) =>
        \A i \in DOMAIN alpha2ToCentroid :
            alpha2ToCentroid[i].pos =
                << obs.pt[1] - CanvasOrigin[1], obs.pt[2] - CanvasOrigin[2] >>
            => LET code == alpha2ToCentroid[i].code
                   j == CHOOSE j \in DOMAIN Features : FeatureAlpha2(Features[j]) = code
                   g == [num |-> GeoCentroid(Features[j]), den |-> 1]
                   earlier == { k \in 1..(j - 1) : GeoContains(Features[k], g) }
               IN IF earlier = {}
                  THEN GeoContains(Features[j], g) => obs.selected = << code >>
                  ELSE LET k == CHOOSE k \in earlier : \A l \in earlier : k <= l
                           a2 == FeatureAlpha2(Features[k])
                       IN obs.selected = IF a2 = NoCode THEN <<>> ELSE << a2 >>

\* A click at the stored US centroid of the large viewport reported US.
C17_Witness ==
    /\ obs.op = "click"
    /\ width = 800
    /\ <<"U","S">> \in MapKeys(alpha2ToCentroid)
    /\ << obs.pt[1] - CanvasOrigin[1], obs.pt[2] - CanvasOrigin[2] >> =
           MapGet(alpha2ToCentroid, <<"U","S">>)
    /\ obs.selected = << <<"U","S">> >>

----------------------------------------------------------------------------
(* C18 *)

\* C18: every frame draws each live blip with radius and opacity that are
\* linear in t = elapsed / duration: for kind new from radius 4, opacity 1
\* at elapsed 0 to radius 22, opacity 0 at 760 ms; for kind repeat from
\* radius 8, opacity 0.85 at elapsed 0 to radius 20, opacity 0 at 420 ms.
C18_BlipInterpolation ==
    obs.op = "frame" =>
        /\ [i \in DOMAIN obs.shapes |-> obs.shapes[i].blip] = blips
        /\ \A i \in DOMAIN obs.shapes :
               LET s == obs.shapes[i]
                   e == now - s.blip.start
               IN /\ s.blip.kind = "new" =>
                        /\ s.radius.num * 760 = s.radius.den * (4 * 760 + (22 - 4) * e)
                        /\ s.alpha.num * 760 = s.alpha.den * (760 - e)
                        /\ e = 0 => s.radius.num = 4 * s.radius.den
                                     /\ s.alpha.num = s.alpha.den
                        /\ e = 760 => s.radius.num = 22 * s.radius.den
                                       /\ s.alpha.num = 0
                  /\ s.blip.kind = "repeat" =>
                        /\ s.radius.num * 420 = s.radius.den * (8 * 420 + (20 - 8) * e)
                        /\ s.alpha.num * 100 * 420 = s.alpha.den * 85 * (420 - e)
                        /\ e = 0 => s.radius.num = 8 * s.radius.den
                                     /\ s.alpha.num * 100 = 85 * s.alpha.den
                        /\ e = 420 => s.radius.num = 20 * s.radius.den
                                       /\ s.alpha.num = 0

\* A frame drew a blip of kind new part-way through its life.
C18_Witness ==
    /\ obs.op = "frame"
    /\ \E i \in DOMAIN obs.shapes :
           /\ obs.shapes[i].blip.kind = "new"
           /\ now - obs.shapes[i].blip.start = 420
           /\ obs.shapes[i].radius.num > 4 * obs.shapes[i].radius.den
           /\ obs.shapes[i].alpha.num > 0

----------------------------------------------------------------------------
(* C19 *)

\* C19: in every frame the strokes of the land outline and of the border
\* lines are visible only above the row of latitude -60: a line lying
\* south of -60 leaves no stroke, a line lying north of it is stroked over
\* its whole extent.
C19_SouthGateClip ==
    obs.op = "frame" =>
        LET gateY == projection.ty + projection.k * 6
            Clipped(strokes, lines) ==
                /\ \A s \in strokes : s.top < gateY /\ s.bottom <= gateY
                /\ \A l \in lines :
                       /\ l.north < -6 => \A s \in strokes : s.name # l.name
                       /\ l.south > -6 =>
                              [name   |-> l.name,
                               top    |-> projection.ty - projection.k * l.north,
                               bottom |-> projection.ty - projection.k * l.south]
                                  \in strokes
        IN /\ (projection.set /\ landGeo) => Clipped(obs.strokes.land, LandLines)
           /\ (projection.set /\ countryLinesGeo) =>
                  Clipped(obs.strokes.borders, BorderLines)

\* A frame stroked the border at the equator and the part of the border
\* crossing the gate, and left out the border near -70.
C19_Witness ==
    /\ obs.op = "frame"
    /\ { s.name : s \in obs.strokes.borders } = {"AA", "CC"}
    /\ { s.name : s \in obs.strokes.land } = {"north coast", "cape"}

----------------------------------------------------------------------------
(* C20 *)

\* C20: the calls of every frame follow one order (clear, gradient, land
\* outline, country borders, pins, blips), the gradient and the blips step
\* run in every frame, and the request of the next frame is the last call,
\* right after the blips step.
C20_FrameOrder ==
    obs.op = "frame" =>
        LET order == <<"clearRect", "gradient", "land", "borders", "pins", "blips",
                       "requestAnimationFrame">>
            rank(c) == CHOOSE i \in DOMAIN order : order[i] = c
            n == Len(obs.calls)
        IN /\ \A i \in DOMAIN obs.calls : \E r \in DOMAIN order : order[r] = obs.calls[i]
           /\ \A i, j \in DOMAIN obs.calls :
                  i < j => rank(obs.calls[i]) < rank(obs.calls[j])
           /\ n >= 4
           /\ obs.calls[2] = "gradient"
           /\ obs.calls[n - 1] = "blips"
           /\ obs.calls[n] = "requestAnimationFrame"
           /\ rafPending

\* A frame ran all five draw steps and requested the next frame.
C20_Witness ==
    /\ obs.op = "frame"
    /\ obs.calls = <<"clearRect", "gradient", "land", "borders", "pins", "blips",
                     "requestAnimationFrame">>
    /\ obs.pins # {}
    /\ obs.shapes # <<>>

----------------------------------------------------------------------------
(* C21 *)

\* Whether two strings are equal once their case is ignored.
SameIgnoringCase(a, b) ==
    /\ Len(a) = Len(b)
    /\ \A i \in DOMAIN a : ToUpperChar(a[i]) = ToUpperChar(b[i])

\* C21: an admin request whose action is not verify, sent by a caller who
\* is not signed in or whose email differs from the admin email whatever
\* the case, is answered 403, touches no table (no read, write or delete)
\* and leaves the blocklist and the country counters as they were.
C21_NonAdminIsRefused ==
    [][ ( /\ adminObs'.method = "POST"
          /\ adminObs'.action \notin {"", "verify"}
          /\ ~( /\ adminObs'.caller.authed
                /\ SameIgnoringCase(adminObs'.caller.email, ADMIN_EMAIL) ) )
        => /\ adminObs'.status = 403
           /\ adminObs'.ops = {}
           /\ blocklist' = blocklist
           /\ countryCounts' = countryCounts
      ]_vars

\* Somebody else asked to unblock the one blocked address and was refused.
C21_Witness ==
    /\ adminObs.action = "unblock_ip"
    /\ adminObs.caller.authed
    /\ adminObs.caller.email = <<"e","v","e","@","x",".","i","o">>
    /\ adminObs.ip = JsString(<<"9">>)
    /\ adminObs.status = 403
    /\ Len(blocklist) = 1
    /\ blocklist[1].ip = <<"9">>

----------------------------------------------------------------------------
(* C25 *)

\* C25: the page invokes the click function at most once, and a press made
\* after a press has been accepted, the first invocation still pending or
\* not, opens the already-clicked dialog and invokes nothing.
C25_SingleInvocation ==
    [][ /\ invoked' <= 1
        /\ (pageObs'.op = "press" /\ presses # <<>>) =>
               /\ pageObs'.modal = "already"
               /\ invoked' = invoked
      ]_vars

----------------------------------------------------------------------------
(* C26 *)

\* C26: the accounts action ends, and its 200 response carries the number
\* of users of the directory, however many there are.
C26_CountIsTotal ==
    /\ accounts.calls <= PageCap
    /\ (accounts.pc = "done" /\ accounts.status = 200) =>
           accounts.count = accounts.users

----------------------------------------------------------------------------
(* C22 *)

\* The click requests answered 200
Answered == { r \in Reqs : reqs[r].pc = "done" /\ reqs[r].resp.status = 200 }

\* C22: a 200 response of the click function carries isNew = true exactly
\* when the client IP is not empty and the request's insert of (ip,
\* country_code) succeeded, the row being in the table from then on; and of
\* the requests of one IP and one country, whatever their interleaving, at
\* most one is answered isNew = true.
C22_IsNewOncePerIpAndCountry ==
    /\ \A r \in Answered :
           reqs[r].resp.isNew
               <=> ( /\ reqs[r].ip # <<>>
                     /\ reqs[r].inserted
                     /\ << reqs[r].ip, reqs[r].country_code >> \in ipClicks )
    /\ \A r1, r2 \in Answered :
           ( /\ reqs[r1].ip = reqs[r2].ip
             /\ reqs[r1].resp.country_code = reqs[r2].resp.country_code
             /\ reqs[r1].resp.isNew
             /\ reqs[r2].resp.isNew ) => r1 = r2

\* Every request came from the same IP and country and was answered 200,
\* one as new and another as not new.
C22_Witness ==
    /\ Answered = Reqs
    /\ \A r \in Reqs : reqs[r].ip = <<"9">> /\ reqs[r].country_code = <<"G","R">>
    /\ \E r1, r2 \in Reqs : reqs[r1].resp.isNew /\ ~reqs[r2].resp.isNew

----------------------------------------------------------------------------
(* C23 *)

\* C23: a click request answered 200 has incremented the counter of the
\* returned country exactly once; the clicks values returned for a country
\* are, over all the 200 responses, the values 1 up to the counter, each
\* once, so the counter is the number of 200 responses for the country and
\* every response carries the value its own increment produced; a request
\* whose increment failed is answered 500.
C23_OneIncrementPer200 ==
    /\ \A r \in Answered : reqs[r].increments = 1
    /\ \A c \in Countries :
           LET of == { r \in Answered : reqs[r].resp.country_code = c }
           IN /\ countryCounts[c] = Cardinality(of)
              /\ { reqs[r].resp.clicks : r \in of } = 1..countryCounts[c]
    /\ \A r \in Reqs :
           (reqs[r].pc = "done" /\ reqs[r].incErr) =>
               reqs[r].resp.status = 500 /\ reqs[r].increments = 0

\* Two requests for one country were answered 200, with 1 and with 2.
C23_Witness ==
    /\ Answered = Reqs
    /\ \A r \in Reqs : reqs[r].resp.country_code = <<"U","S">>
    /\ countryCounts[<<"U","S">>] = MaxReqs
    /\ \E r \in Reqs : reqs[r].resp.clicks = 1

----------------------------------------------------------------------------
(* C24 *)

\* Two upper-case letters
TwoUpperLetters(s) ==
    Len(s) = 2 /\ \A i \in DOMAIN s : s[i] \in { Uppers[j] : j \in DOMAIN Uppers }

\* Two letters of either case
TwoLetters(s) ==
    /\ Len(s) = 2
    /\ \A i \in DOMAIN s :
           s[i] \in { Uppers[j] : j \in DOMAIN Uppers } \cup { Lowers[j] : j \in DOMAIN Lowers }

\* C24: the country_code of a 200 response of the click function is two
\* upper-case letters, and it is US when the lookup threw, was answered
\* with a status that is not ok, or carried no country of two letters.
C24_CountryIsAlpha2OrUS ==
    \A r \in Answered :
        /\ TwoUpperLetters(reqs[r].resp.country_code)
        /\ ( \/ reqs[r].geo.kind # "ok"
             \/ reqs[r].geo.country.t # "string"
             \/ ~TwoLetters(reqs[r].geo.country.s) )
           => reqs[r].resp.country_code = <<"U","S">>

\* A lookup that returned "usa" was answered with US, one that returned
\* "gr" with GR.
C24_Witness ==
    /\ \E r \in Answered :
           /\ reqs[r].geo = [kind |-> "ok", country |-> JsString(<<"u","s","a">>)]
           /\ reqs[r].resp.country_code = <<"U","S">>
    /\ \E r \in Answered :
           /\ reqs[r].geo = [kind |-> "ok", country |-> JsString(<<"g","r">>)]
           /\ reqs[r].resp.country_code = <<"G","R">>

----------------------------------------------------------------------------
(* C27 *)

\* C27: a resize leaves the blip list as it was (positions, kinds and start
\* times included), while a resize handled with geometry loaded changes the
\* projection and the coordinates of the Centroid Index.
C27_ResizeKeepsBlips ==
    [][ obs'.op = "resize" =>
          /\ blips' = blips
          /\ ("resize" \in listeners /\ landGeo /\ countriesFC) =>
                 /\ projection' # projection
                 /\ alpha2ToCentroid' # alpha2ToCentroid
      ]_vars

\* After a resize to the large viewport a blip still sits at the US centroid
\* of the small one.
C27_Witness ==
    /\ obs.op = "resize"
    /\ projection = FitProjection(800, 400)
    /\ Len(blips) = 1
    /\ << blips[1].x, blips[1].y >> = <<100, 60>>
    /\ <<"U","S">> \in MapKeys(alpha2ToCentroid)
    /\ MapGet(alpha2ToCentroid, <<"U","S">>) # <<100, 60>>

----------------------------------------------------------------------------
(* C28 *)

\* C28: a click request answered 500 has inserted no (ip, country) row and
\* has incremented no counter.
C28_FailedRequestChangesNothing ==
    \A r \in Reqs :
        (reqs[r].pc = "done" /\ reqs[r].resp.status = 500) =>
            ~reqs[r].inserted /\ reqs[r].increments = 0

----------------------------------------------------------------------------
(* C29 *)

\* A payload ip that is missing or holds nothing but spaces.
BlankIp(v) == v.t = "undefined" \/ (v.t = "string" /\ \A i \in DOMAIN v.s : v.s[i] = " ")

\* C29: the blocklist holds at most one entry per address, and an address
\* is listed exactly when the last block_ip or unblock_ip request that
\* succeeded for it was block_ip; an admin's block_ip or unblock_ip request
\* whose ip is missing or blank is answered 400 and leaves the blocklist
\* as it was.
C29_BlocklistFollowsLastRequest ==
    [][ /\ \A i, j \in DOMAIN blocklist' :
               blocklist'[i].ip = blocklist'[j].ip => i = j
        /\ \A ip \in BlockIps :
               (\E i \in DOMAIN blocklist' : blocklist'[i].ip = ip)
                   <=> lastBlockOp'[ip] = "block"
        /\ \A i \in DOMAIN blocklist' : blocklist'[i].ip \in BlockIps
        /\ ( /\ adminObs'.action \in {"block_ip", "unblock_ip"}
             /\ adminObs'.isAdmin
             /\ BlankIp(adminObs'.ip) )
           => adminObs'.status = 400 /\ blocklist' = blocklist
      ]_vars

\* One address was blocked twice, the other blocked and unblocked, and a
\* block_ip request with a blank ip has just been answered 400.
C29_Witness ==
    /\ adminObs.action = "block_ip"
    /\ adminObs.isAdmin
    /\ adminObs.ip = JsString(<<" ">>)
    /\ adminObs.status = 400
    /\ Len(blocklist) = 1
    /\ blocklist[1] = [ip |-> <<"9">>, reason |-> <<"s">>]
    /\ lastBlockOp[<<"9">>] = "block"
    /\ lastBlockOp[<<"7">>] = "unblock"

----------------------------------------------------------------------------
(* C30 *)

\* C30: when the invocation of an accepted press has settled, exactly one
\* world:blip event has been dispatched for it, with the country selected
\* in the end, of kind new when the click function succeeded and reported
\* isNew and of kind repeat otherwise, an error of the click function
\* included.
C30_OneBlipPerPress ==
    pageObs.op = "resolved" =>
        /\ Len(pageObs.events) = 1
        /\ pageObs.events[1].code = selected
        /\ pageObs.events[1].kind =
               IF ~pageObs.error /\ pageObs.isNew THEN "new" ELSE "repeat"

====
